---- MODULE Spec2Model ----
(***************************************************************************)
(* tinyMMO server (src/server.c): the UDP session core.                    *)
(*                                                                         *)
(* The server is one thread.  run_server loops: measure the elapsed time,   *)
(* run the catch-up ticks (run_tick: one pass over the client array),      *)
(* then drain the socket (receive_packets: one recvfrom per iteration).    *)
(* The model follows that thread with a program counter; each step is one  *)
(* loop iteration of the code.                                             *)
(*                                                                         *)
(* 32-bit quantities (send_tick, recv_tick, output.audio) are kept as a    *)
(* pair of 16-bit halves <<hi, lo>>, so that every uint32_t value,          *)
(* 4294967295 included, is representable.  Bytes are 0..255.               *)
(***************************************************************************)
EXTENDS Integers, Sequences, FiniteSets, TLC

(***************************************************************************)
(* Sizes.  NETWORK_CLIENTS, NETWORK_TIMEOUT, VIDEO_ROWS and VIDEO_COLS are *)
(* the program's enum constants scaled down (1024, 200, 16 and 16 in the   *)
(* source); MaxTick caps the global tick counter.  Time is counted in      *)
(* units of half a tick, so TICK_TIME is 2.  AF_INET is the value the      *)
(* system headers give it.                                                 *)
(***************************************************************************)
NETWORK_CLIENTS == 2
NETWORK_TIMEOUT == 2
VIDEO_ROWS == 2
VIDEO_COLS == 2
MaxTick == 4

TICK_TIME == 2
AF_INET == 2

Slots == 0 .. (NETWORK_CLIENTS - 1)
Byte == 0 .. 255

(***************************************************************************)
(* struct sockaddr_in as the bytes memcmp sees: <<sin_family, sin_port,    *)
(* sin_addr>>, one byte each.  recvfrom fills sin_family with AF_INET, so  *)
(* a peer's address is never the all-zero address of an unused slot.       *)
(* There is one more peer than there are slots.                            *)
(***************************************************************************)
ZeroAddr == <<0, 0, 0>>
Addresses == { <<AF_INET, 1 + (k % 2), k \div 2>> : k \in 0 .. NETWORK_CLIENTS }

(***************************************************************************)
(* uint32_t as <<hi, lo>>, value hi * 65536 + lo.                          *)
(***************************************************************************)
Half == 256 * 256
Zero32 == <<0, 0>>
Le32(x, y) == x[1] < y[1] \/ (x[1] = y[1] /\ x[2] <= y[2])
Inc32(x) ==
    IF x[2] + 1 < Half THEN <<x[1], x[2] + 1>>
    ELSE <<(x[1] + 1) % Half, 0>>

\* read_uint32: (data[0] << 24) | (data[1] << 16) | (data[2] << 8) | data[3];
\* the four shifted bytes occupy disjoint bits.  `d` is the 4 bytes at the
\* offset read.  (data[0] is promoted to int, so for data[0] >= 128 the
\* shift leaves the range of int; the compilers the program builds with
\* yield the wrapped value, which the return converts to the uint32_t
\* modelled here.)
read_uint32(d) == << d[1] * 256 + d[2], d[3] * 256 + d[4] >>

\* Variant: the least significant byte first.
write_uint32_LittleEndian(x) ==
    << x[2] % 256, (x[2] \div 256) % 256, x[1] % 256, (x[1] \div 256) % 256 >>

\* write_uint32: data[0] = (x >> 24) & 255; data[1] = (x >> 16) & 255;
\* data[2] = (x >> 8) & 255; data[3] = x & 255.
write_uint32(x) ==
    << (x[1] \div 256) % 256, x[1] % 256, (x[2] \div 256) % 256, x[2] % 256 >>

(***************************************************************************)
(* Bitwise operations on bytes.                                            *)
(***************************************************************************)
RECURSIVE BitAnd(_, _, _)
BitAnd(a, b, n) ==
    IF n = 0 THEN 0
    ELSE ((a % 2) * (b % 2)) + 2 * BitAnd(a \div 2, b \div 2, n - 1)

\* Variant: the buttons that were down and are not any more.
NewlyPressed_Released(down, buttons) == BitAnd(down, 255 - buttons, 8)

\* Variant: pressed takes the buttons as they are.
NewlyPressed_Or(down, buttons) == buttons

\* (~down) & buttons, stored into a uint8_t.
NewlyPressed(down, buttons) == BitAnd(255 - down, buttons, 8)

(***************************************************************************)
(* client_t                                                                *)
(***************************************************************************)
ZeroVideo == [r \in 0 .. (VIDEO_ROWS - 1) |-> [c \in 0 .. (VIDEO_COLS - 1) |-> 0]]

\* (client_t){0}
ZeroClient ==
    [ connected |-> FALSE, down |-> 0, pressed |-> 0,
      video |-> ZeroVideo, audio |-> Zero32, music |-> 0,
      addr |-> ZeroAddr, last_tick |-> 0,
      send_tick |-> Zero32, recv_tick |-> Zero32 ]

\* (client_t){ .connected = true, .net.addr = addr, .output.music = -1 }
NewClient(addr) ==
    [ ZeroClient EXCEPT !.connected = TRUE, !.addr = addr, !.music = -1 ]

(***************************************************************************)
(* The registry: a sorted array searched by bsearch.                       *)
(***************************************************************************)
\* memcmp over two equally long byte strings: the sign of the first
\* difference.
RECURSIVE memcmp(_, _)
memcmp(a, b) ==
    IF a = <<>> THEN 0
    ELSE IF Head(a) < Head(b) THEN -1
    ELSE IF Head(a) > Head(b) THEN 1
    ELSE memcmp(Tail(a), Tail(b))

\* Variant: the operands swapped.
compare_clients_Reversed(a, b) == memcmp(b.addr, a.addr)

\* compare_clients: memcmp of the two net.addr fields.
compare_clients(a, b) == memcmp(a.addr, b.addr)

Perms == { p \in [Slots -> Slots] : \A x, y \in Slots : x # y => p[x] # p[y] }

IsSorted(arr) ==
    \A x \in Slots : x + 1 \in Slots => compare_clients(arr[x], arr[x + 1]) <= 0

\* Variant: the array is left in the order it has.
qsort_Unsorted(arr) == {arr}

\* qsort(clients, NETWORK_CLIENTS, sizeof(client_t), compare_clients): some
\* rearrangement of the array that is ordered by the comparator (qsort is
\* not stable, so elements that compare equal may land in any order).
qsort(arr) ==
    { s \in { [x \in Slots |-> arr[p[x]]] : p \in Perms } : IsSorted(s) }

\* bsearch(&needle, clients, NETWORK_CLIENTS, sizeof(client_t),
\* compare_clients): binary search over [l, u); -1 stands for NULL.
RECURSIVE bsearch_range(_, _, _, _)
bsearch_range(needle, arr, l, u) ==
    IF l >= u THEN -1
    ELSE LET idx == (l + u) \div 2
             cmp == compare_clients(needle, arr[idx])
         IN  IF cmp < 0 THEN bsearch_range(needle, arr, l, idx)
             ELSE IF cmp > 0 THEN bsearch_range(needle, arr, idx + 1, u)
             ELSE idx

\* Variant: the search finds nothing.
bsearch_Miss(needle, arr) == -1

bsearch(needle, arr) == bsearch_range(needle, arr, 0, NETWORK_CLIENTS)

(***************************************************************************)
(* create_client, after its qsort: `arr` is the array the search runs on.  *)
(* The result is the new array, the sorted flag, the slot returned (-1 for *)
(* NULL) and whether on_connect fired.                                     *)
(***************************************************************************)
\* Variant: a client is created without on_connect.
create_client_Silent(arr, addr) ==
    LET found == bsearch([ZeroClient EXCEPT !.addr = addr], arr)
    IN  IF found # -1
        THEN [clients |-> arr, sorted |-> TRUE, ret |-> found, connect |-> FALSE]
        ELSE IF arr[0].connected
        THEN [clients |-> arr, sorted |-> TRUE, ret |-> -1, connect |-> FALSE]
        ELSE [clients |-> [arr EXCEPT ![0] = NewClient(addr)],
              sorted |-> FALSE, ret |-> 0, connect |-> FALSE]

\* Variant: slot 0 is taken even when it is connected.
create_client_Evicting(arr, addr) ==
    LET found == bsearch([ZeroClient EXCEPT !.addr = addr], arr)
    IN  IF found # -1
        THEN [clients |-> arr, sorted |-> TRUE, ret |-> found, connect |-> FALSE]
        ELSE [clients |-> [arr EXCEPT ![0] = NewClient(addr)],
              sorted |-> FALSE, ret |-> 0, connect |-> TRUE]

\* Variant: the flag is left set after a client is created.
create_client_KeepsSorted(arr, addr) ==
    LET found == bsearch([ZeroClient EXCEPT !.addr = addr], arr)
    IN  IF found # -1
        THEN [clients |-> arr, sorted |-> TRUE, ret |-> found, connect |-> FALSE]
        ELSE IF arr[0].connected
        THEN [clients |-> arr, sorted |-> TRUE, ret |-> -1, connect |-> FALSE]
        ELSE [clients |-> [arr EXCEPT ![0] = NewClient(addr)],
              sorted |-> TRUE, ret |-> 0, connect |-> TRUE]

create_client(arr, addr) ==
    LET found == bsearch([ZeroClient EXCEPT !.addr = addr], arr)
    IN  IF found # -1
        THEN [clients |-> arr, sorted |-> TRUE, ret |-> found, connect |-> FALSE]
        ELSE IF arr[0].connected
        THEN [clients |-> arr, sorted |-> TRUE, ret |-> -1, connect |-> FALSE]
        ELSE [clients |-> [arr EXCEPT ![0] = NewClient(addr)],
              sorted |-> FALSE, ret |-> 0, connect |-> TRUE]

\* Variant: the slot is disconnected and keeps its counters and buttons.
destroy_client_KeepsCounters(c) ==
    [ZeroClient EXCEPT !.send_tick = c.send_tick, !.recv_tick = c.recv_tick,
                       !.down = c.down]

\* destroy_client: on_disconnect(client); *client = (client_t){0}.
destroy_client(c) == ZeroClient

(***************************************************************************)
(* on_client is the game's per-client callback.  The body shipped is empty *)
(* (hook 0).  It is the place where a game writes client->output, so the   *)
(* model also lets it store one of two outputs (hooks 1 and 2), or answer   *)
(* the input: output.music = input.pressed (Echo).                         *)
(***************************************************************************)
Hooks == {0, 1, 2}
Echo == 3

GridA == [r \in 0 .. (VIDEO_ROWS - 1) |-> [c \in 0 .. (VIDEO_COLS - 1) |-> r * VIDEO_COLS + c + 1]]
GridB == [r \in 0 .. (VIDEO_ROWS - 1) |-> [c \in 0 .. (VIDEO_COLS - 1) |-> 255 - (r + 2 * c)]]

on_client(c, h) ==
    CASE h = 0 -> c
      [] h = 1 -> [c EXCEPT !.video = GridA, !.audio = <<32768, 1>>, !.music = 7]
      [] h = 2 -> [c EXCEPT !.video = GridB, !.audio = <<258, 772>>, !.music = -128]
      [] h = Echo -> [c EXCEPT !.music = c.pressed]

\* memcpy(&data[9], client->output.video, sizeof(client->output.video)):
\* uint8_t video[VIDEO_ROWS][VIDEO_COLS] lies row after row in memory.
VideoBytes(video) ==
    [k \in 1 .. (VIDEO_ROWS * VIDEO_COLS) |->
        video[(k - 1) \div VIDEO_COLS][(k - 1) % VIDEO_COLS]]

\* The datagram handle_client builds from the client after on_client and
\* the incremented send_tick.  data[8] = music stores an int8_t into a
\* uint8_t.
Packet(c, seq) ==
    write_uint32(seq) \o write_uint32(c.audio) \o << c.music % 256 >>
        \o VideoBytes(c.video)

\* Variant: audio and pressed are not reset.
handle_client_NoReset(c, h) ==
    LET c1 == on_client(c, h)
        seq == Inc32(c1.send_tick)
    IN  [ client |-> [c1 EXCEPT !.send_tick = seq],
          dest |-> c1.addr, data |-> Packet(c1, seq) ]

\* Variant: send_tick is written before it is incremented.
handle_client_SendThenCount(c, h) ==
    LET c1 == on_client(c, h)
        seq == Inc32(c1.send_tick)
    IN  [ client |-> [c1 EXCEPT !.send_tick = seq, !.audio = Zero32, !.pressed = 0],
          dest |-> c1.addr, data |-> Packet(c1, c1.send_tick) ]

\* Variant: pressed is reset before on_client runs.
handle_client_ResetFirst(c, h) ==
    LET c1 == on_client([c EXCEPT !.pressed = 0], h)
        seq == Inc32(c1.send_tick)
    IN  [ client |-> [c1 EXCEPT !.send_tick = seq, !.audio = Zero32, !.pressed = 0],
          dest |-> c1.addr, data |-> Packet(c1, seq) ]

\* handle_client: on_client, build and send the update, reset audio and
\* pressed.  The result is the client afterwards and the datagram given to
\* sendto (whose return value the code ignores).
handle_client(c, h) ==
    LET c1 == on_client(c, h)
        seq == Inc32(c1.send_tick)
    IN  [ client |-> [c1 EXCEPT !.send_tick = seq, !.audio = Zero32, !.pressed = 0],
          dest |-> c1.addr, data |-> Packet(c1, seq) ]

\* Variant: pressed keeps the bits earlier datagrams set.
AcceptInput_Accumulate(c, t, buttons, now) ==
    [c EXCEPT !.last_tick = now,
              !.recv_tick = t,
              !.pressed = c.pressed + NewlyPressed(c.down, buttons)
                            - BitAnd(c.pressed, NewlyPressed(c.down, buttons), 8),
              !.down = buttons]

\* receive_packets, the sequence test passed: last_tick = state.tick;
\* recv_tick = tick; pressed = (~down) & data[4]; down = data[4].
AcceptInput(c, t, buttons, now) ==
    [c EXCEPT !.last_tick = now,
              !.recv_tick = t,
              !.pressed = NewlyPressed(c.down, buttons),
              !.down = buttons]

\* Variant: the counter wraps: after the largest sequence number every
\* datagram passes.
Stale_WrapsAtMax(t, c) == Le32(t, c.recv_tick) /\ c.recv_tick # <<65535, 65535>>

\* Variant: an equal sequence number passes.
Stale_Strict(t, c) == Le32(t, c.recv_tick) /\ t # c.recv_tick

\* receive_packets' test: tick <= client->net.recv_tick.
Stale(t, c) == Le32(t, c.recv_tick)

\* Variant: the session is given one more tick.
TimedOut_Lenient(c, now) == now - c.last_tick > NETWORK_TIMEOUT + 1

\* Variant: the session is dropped already at the limit.
TimedOut_AtLimit(c, now) == now - c.last_tick >= NETWORK_TIMEOUT

\* run_tick's test: state.tick - client->net.last_tick > NETWORK_TIMEOUT
\* (last_tick never exceeds state.tick, so the uint64_t difference does
\* not wrap).
TimedOut(c, now) == now - c.last_tick > NETWORK_TIMEOUT

(***************************************************************************)
(* What recvfrom can deliver: the sender and the bytes of one datagram.    *)
(* Two environments draw it freely (a third, with a socket queue, follows  *)
(* further down).                                                          *)
(*                                                                         *)
(* Crowd: every peer (one more than there are slots) sends the datagram    *)
(* seq = 1, buttons = A|B, the first peer also seq = 0; the game callback  *)
(* is the empty one shipped.                                               *)
(*                                                                         *)
(* Player: one peer sends sequence numbers 0, 1 and 4294967295 with        *)
(* buttons A|B and B|X, and seq = 2 with a trailing byte; a second peer    *)
(* sends seq = 1, buttons = B|X; the game callback writes the output.      *)
(*                                                                         *)
(* Both also deliver a datagram of no bytes and one of four bytes.         *)
(***************************************************************************)
Dgram(addr, data) == [addr |-> addr, data |-> data]

FirstPeer == <<AF_INET, 1, 0>>
SecondPeer == <<AF_INET, 2, 0>>

ShortDatagrams == { Dgram(FirstPeer, <<>>), Dgram(FirstPeer, <<0, 0, 0, 1>>) }

CrowdDatagrams ==
    ShortDatagrams
        \cup { Dgram(a, <<0, 0, 0, 1, 3>>) : a \in Addresses }
        \cup { Dgram(FirstPeer, <<0, 0, 0, 0, 3>>) }

SeqBytes == { <<0, 0, 0, 0>>, <<0, 0, 0, 1>>, <<255, 255, 255, 255>> }
Buttons == {3, 6}
PlayerDatagrams ==
    ShortDatagrams
        \cup { Dgram(FirstPeer, s \o <<b>>) : s \in SeqBytes, b \in Buttons }
        \cup { Dgram(FirstPeer, <<0, 0, 0, 2, 3, 9>>) }
        \cup { Dgram(SecondPeer, <<0, 0, 0, 1, 6>>) }

\* The time that can pass between two readings of the clock.
Elapsed == { 1, 2 * TICK_TIME }

(***************************************************************************)
(* Server: the whole process from main on.  Datagrams arrive on the socket *)
(* while the server does something else and wait there until recvfrom      *)
(* takes the oldest (MaxArrivals datagrams come in all); sendto can fail;  *)
(* the game                                                                *)
(* callback is one that answers the input (Echo).  The                     *)
(* first peer sends a datagram of no bytes and one of four bytes; every    *)
(* peer (one more than there are slots) sends seq = 1, buttons = A.        *)
(***************************************************************************)
MaxArrivals == 3
BUTTON_A == 1
ServerDatagrams ==
    ShortDatagrams
        \cup { Dgram(a, <<0, 0, 0, 1, BUTTON_A>>) : a \in Addresses }

SendResults == {"sent", "failed"}

(***************************************************************************)
(* Burst: the server from run_server's loop on, with the socket queue,     *)
(* against a clock that moves by one tick's time or, after a stall, by     *)
(* NETWORK_TIMEOUT + 1 ticks' time at once.  The first peer sends seq = 1  *)
(* and seq = 2, a second peer seq = 1; the game callback is the empty one. *)
(***************************************************************************)
Stall == (NETWORK_TIMEOUT + 1) * TICK_TIME
BurstElapsed == { TICK_TIME, Stall }
BurstDatagrams ==
    { Dgram(FirstPeer, <<0, 0, 0, 1, 3>>), Dgram(FirstPeer, <<0, 0, 0, 2, 3>>),
      Dgram(SecondPeer, <<0, 0, 0, 1, 3>>) }

\* Variant: a datagram of four bytes passes.
Malformed_Four(received) == received < 4

\* receive_packets: if (received < 5) continue;
Malformed(received) == received < 5

\* Variant: a tick runs only when more than one tick's time is due.
CatchUp_Late(delta) == delta > TICK_TIME

\* run_server's for loop test: delta_time >= TICK_TIME.
CatchUp(delta) == delta >= TICK_TIME

\* Variant: on_tick is called before the increment.
TickHead_HookFirst(t) == [tick |-> t + 1, on_tick |-> t]

\* run_tick's head: state.tick++; on_tick().  on_tick takes no argument;
\* what it can see is state.tick.
TickHead(t) == [tick |-> t + 1, on_tick |-> t + 1]

\* Variant: every second slot is visited.
NextSlot_Skip(x, sendto) == x + 2

\* Variant: a failed sendto ends the pass.
NextSlot_Abort(x, sendto) == IF sendto = "failed" THEN NETWORK_CLIENTS ELSE x + 1

\* run_tick's for loop: i++, after continue, destroy_client or
\* handle_client alike; handle_client is void and drops sendto's result.
NextSlot(x, sendto) == x + 1

\* Variant: the process ends with status 0.
panic_Success == [pc |-> "exit", status |-> 0]

\* panic: fprintf(stderr, ...); exit(EXIT_FAILURE).
EXIT_FAILURE == 1
panic == [pc |-> "exit", status |-> EXIT_FAILURE]

(***************************************************************************)
(* State                                                                   *)
(***************************************************************************)
VARIABLES
    running,     \* state.running
    tick,        \* state.tick
    clients,     \* state.net.clients
    sorted,      \* state.net.sorted
    delta_time,  \* run_server's accumulator, in time units
    pc,          \* where the thread is
    i,           \* run_tick's loop index
    dgram,       \* receive_packets: addr and data of the datagram in hand
    cur,         \* receive_packets: the client create_client returned
    socket,      \* the datagrams waiting on state.net.udp, oldest first
    status,      \* the process's exit status (-1: it has not exited)
    out,         \* the datagram the last step gave to sendto, if any
    ev,          \* the callbacks the last step called
    sentSeq,     \* per address: the sequence number of the last datagram
                 \* sent to it since its session was created (zero: none)
    hist         \* what has happened so far (see NoHistory)

vars == << running, tick, clients, sorted, delta_time, pc, i, dgram, cur,
           socket, status, out, ev, sentSeq, hist >>

NoPacket == [addr |-> ZeroAddr, data |-> <<>>]

\* The sequence number a receiver finds in the first four bytes of a
\* datagram, most significant byte first.
WireSeq(data) == << data[1] * 256 + data[2], data[3] * 256 + data[4] >>

\* What a step called and took: on_connect(client) / on_disconnect(client)
\* with the client's address; on_client with the body that ran (-1: not
\* called); create_client's return value (a slot, -1 for NULL, -2: not
\* called); what became of the datagram ("empty", "short", "stale" or
\* "accepted"); the value of
\* state.tick when on_tick ran (-1: not called); how sendto ended.
NoEvent ==
    [connect |-> ZeroAddr, disconnect |-> ZeroAddr, hook |-> -1, ret |-> -2,
     input |-> "none", on_tick |-> -1, sendto |-> "none"]

\* Bookkeeping for the properties; no step reads it.
\*   total    the time that has passed since run_server's first get_time
\*   due      delta_time as it was when the catch-up loop began
\*   burst    the ticks the catch-up loop has run since
\*   began    the addresses connected when the running pass of run_tick began
\*   evicted, called, sent
\*            per address, the destroy_client, on_client and sendto calls
\*            of the running pass
\*   failed   the addresses whose sendto failed in the running pass
\*   net      per address, on_connect calls minus on_disconnect calls
\*   gone     the addresses whose sessions the last catch-up loop destroyed,
\*            kept until receive_packets has read a datagram
\*   arrived  the datagrams that have reached the socket
\*   owed     the datagrams that waited when receive_packets was called and
\*            that recvfrom has not returned yet
\*   on_init, on_quit
\*            the calls of on_init and of on_quit
\*   read     whether recvfrom has been called
NoCount == [a \in Addresses |-> 0]

NoPass == [began |-> {}, evicted |-> NoCount, called |-> NoCount,
           sent |-> NoCount, failed |-> {}]

NoHistory ==
    [total |-> 0, due |-> 0, burst |-> 0, pass |-> NoPass,
     net |-> NoCount, gone |-> {}, arrived |-> 0, owed |-> 0,
     on_init |-> 0, on_quit |-> 0, read |-> FALSE]

\* static struct state_t state: zero until init_server runs.
Loaded ==
    /\ running = FALSE
    /\ tick = 0
    /\ clients = [x \in Slots |-> ZeroClient]
    /\ sorted = FALSE
    /\ delta_time = 0
    /\ i = 0
    /\ dgram = NoPacket
    /\ cur = -1
    /\ socket = <<>>
    /\ status = -1
    /\ out = NoPacket
    /\ ev = NoEvent
    /\ sentSeq = [a \in Addresses |-> Zero32]

\* The process at main's first statement.
InitMain ==
    /\ Loaded
    /\ pc = "main"
    /\ hist = NoHistory

\* The process at run_server's while, after init_server (state = (struct
\* state_t){ .running = true }) and on_init, with delta_time = 0.0.
Init ==
    /\ running = TRUE
    /\ tick = 0
    /\ clients = [x \in Slots |-> ZeroClient]
    /\ sorted = FALSE
    /\ delta_time = 0
    /\ pc = "loop"
    /\ i = 0
    /\ dgram = NoPacket
    /\ cur = -1
    /\ socket = <<>>
    /\ status = -1
    /\ out = NoPacket
    /\ ev = NoEvent
    /\ sentSeq = [a \in Addresses |-> Zero32]
    /\ hist = [NoHistory EXCEPT !.on_init = 1]

\* The rest of the state, which startup and the outside leave alone.
core == << tick, clients, sorted, delta_time, i, dgram, cur, out, ev, sentSeq >>

\* init_server: state = (struct state_t){ .running = true }; socket().
Socket ==
    /\ pc = "main"
    /\ running' = TRUE
    /\ \E ok \in BOOLEAN :
        /\ pc' = IF ok THEN "bind" ELSE panic.pc
        /\ status' = IF ok THEN status ELSE panic.status
    /\ UNCHANGED << core, socket, hist >>

\* init_server: bind().
Bind ==
    /\ pc = "bind"
    /\ \E ok \in BOOLEAN :
        /\ pc' = IF ok THEN "fcntl" ELSE panic.pc
        /\ status' = IF ok THEN status ELSE panic.status
    /\ UNCHANGED << core, running, socket, hist >>

\* init_server: fcntl(F_SETFL, O_NONBLOCK).
Fcntl ==
    /\ pc = "fcntl"
    /\ \E ok \in BOOLEAN :
        /\ pc' = IF ok THEN "init" ELSE panic.pc
        /\ status' = IF ok THEN status ELSE panic.status
    /\ UNCHANGED << core, running, socket, hist >>

\* run_server: on_init(); delta_time = 0.0; last_time = get_time().
OnInit ==
    /\ pc = "init"
    /\ pc' = "loop"
    /\ hist' = [hist EXCEPT !.on_init = @ + 1]
    /\ UNCHANGED << core, running, socket, status >>

\* A peer's datagram reaches the socket and waits there.  The server looks
\* at the socket only in recvfrom, so an arrival at any moment before
\* receive_packets is called is the same to it as one just before the
\* catch-up loop's last test, and an arrival while a datagram is being
\* handled the same as one just before the next recvfrom; arrivals are
\* placed at these two moments, and with `early` also before the clock is
\* read (during usleep), so that datagrams wait while the ticks run.
Arrive(datagrams, early) ==
    /\ \/ pc = "loop" /\ early
       \/ pc = "ticks" /\ ~CatchUp(delta_time)
       \/ pc = "recv"
    /\ hist.arrived < MaxArrivals
    /\ \E d \in datagrams : socket' = Append(socket, d)
    /\ hist' = [hist EXCEPT !.arrived = @ + 1]
    /\ UNCHANGED << core, running, pc, status >>

\* SIGINT or SIGTERM reaches the process.  The program installs no handler
\* and nothing stores to state.running after init_server, so the signal's
\* default action ends the process where it stands: its memory and its
\* socket are gone, no further statement runs.
Signal ==
    /\ pc \notin {"exit", "killed"}
    /\ pc' = "killed"
    /\ running' = FALSE
    /\ tick' = 0
    /\ clients' = [x \in Slots |-> ZeroClient]
    /\ sorted' = FALSE
    /\ delta_time' = 0
    /\ i' = 0
    /\ dgram' = NoPacket
    /\ cur' = -1
    /\ socket' = <<>>
    /\ out' = NoPacket
    /\ ev' = NoEvent
    /\ sentSeq' = [a \in Addresses |-> Zero32]
    /\ UNCHANGED << status, hist >>

\* run_server: while (state.running); delta_time += current_time - last_time.
Advance(elapsed) ==
    /\ pc = "loop"
    /\ running
    /\ \E e \in elapsed :
        /\ delta_time' = delta_time + e
        /\ hist' = [hist EXCEPT !.total = @ + e, !.due = delta_time + e,
                      !.burst = 0, !.owed = 0]
    /\ pc' = "ticks"
    /\ out' = NoPacket
    /\ ev' = NoEvent
    /\ UNCHANGED << running, tick, clients, sorted, i, dgram, cur, socket, status, sentSeq >>

\* run_server: the for loop's test fails, receive_packets is called.
TicksDone ==
    /\ pc = "ticks"
    /\ ~CatchUp(delta_time)
    /\ pc' = "recv"
    /\ out' = NoPacket
    /\ ev' = NoEvent
    /\ hist' = [hist EXCEPT !.due = 0, !.burst = 0, !.owed = Len(socket)]
    /\ UNCHANGED << running, tick, clients, sorted, delta_time, i, dgram, cur, socket, status, sentSeq >>

\* run_tick's head: state.tick++; on_tick(); i = 0.
TickBegin ==
    /\ pc = "ticks"
    /\ CatchUp(delta_time)
    /\ tick < MaxTick
    /\ tick' = TickHead(tick).tick
    /\ i' = 0
    /\ pc' = "clients"
    /\ out' = NoPacket
    /\ ev' = [NoEvent EXCEPT !.on_tick = TickHead(tick).on_tick]
    /\ hist' = [hist EXCEPT !.burst = @ + 1,
                  !.pass = [NoPass EXCEPT !.began =
                      { clients[x].addr : x \in { y \in Slots : clients[y].connected } }]]
    /\ UNCHANGED << running, clients, sorted, delta_time, dgram, cur, socket, status, sentSeq >>

\* run_tick's loop body, slot i not connected: continue.
SkipSlot ==
    /\ pc = "clients"
    /\ i < NETWORK_CLIENTS
    /\ ~clients[i].connected
    /\ i' = NextSlot(i, "none")
    /\ out' = NoPacket
    /\ ev' = NoEvent
    /\ UNCHANGED << running, tick, clients, sorted, delta_time, pc, dgram, cur, socket, status, sentSeq, hist >>

\* run_tick's loop body, slot i timed out: destroy_client.
Evict ==
    /\ pc = "clients"
    /\ i < NETWORK_CLIENTS
    /\ clients[i].connected
    /\ TimedOut(clients[i], tick)
    /\ clients' = [clients EXCEPT ![i] = destroy_client(clients[i])]
    /\ sorted' = FALSE
    /\ i' = NextSlot(i, "none")
    /\ out' = NoPacket
    /\ ev' = [NoEvent EXCEPT !.disconnect = clients[i].addr]
    /\ sentSeq' = [sentSeq EXCEPT ![clients[i].addr] = Zero32]
    /\ hist' = [hist EXCEPT !.net[clients[i].addr] = @ - 1,
                  !.gone = @ \cup {clients[i].addr},
                  !.pass.evicted[clients[i].addr] = @ + 1]
    /\ UNCHANGED << running, tick, delta_time, pc, dgram, cur, socket, status >>

\* run_tick's loop body, slot i connected and alive: handle_client.
Dispatch(hooks, results) ==
    /\ pc = "clients"
    /\ i < NETWORK_CLIENTS
    /\ clients[i].connected
    /\ ~TimedOut(clients[i], tick)
    /\ \E h \in hooks, s \in results :
        LET r == handle_client(clients[i], h)
        IN  /\ clients' = [clients EXCEPT ![i] = r.client]
            /\ out' = [addr |-> r.dest, data |-> r.data]
            /\ ev' = [NoEvent EXCEPT !.hook = h, !.sendto = s]
            /\ sentSeq' = [sentSeq EXCEPT ![r.dest] = WireSeq(r.data)]
            /\ i' = NextSlot(i, s)
            /\ hist' = [hist EXCEPT !.pass.called[clients[i].addr] = @ + 1,
                          !.pass.sent[r.dest] = @ + 1,
                          !.pass.failed = IF s = "failed" THEN @ \cup {r.dest} ELSE @]
    /\ UNCHANGED << running, tick, sorted, delta_time, pc, dgram, cur, socket, status >>

\* run_tick returns; the for loop's step: delta_time -= TICK_TIME.
TickEnd ==
    /\ pc = "clients"
    /\ i >= NETWORK_CLIENTS
    /\ delta_time' = delta_time - TICK_TIME
    /\ pc' = "ticks"
    /\ out' = NoPacket
    /\ ev' = NoEvent
    /\ hist' = [hist EXCEPT !.pass = NoPass]
    /\ UNCHANGED << running, tick, clients, sorted, i, dgram, cur, socket, status, sentSeq >>

\* receive_packets: recvfrom has nothing (-1): return, usleep, loop.
RecvNothing ==
    /\ pc = "recv"
    /\ socket = <<>>
    /\ pc' = "loop"
    /\ out' = NoPacket
    /\ ev' = NoEvent
    /\ hist' = [hist EXCEPT !.read = TRUE, !.gone = {}]
    /\ UNCHANGED << running, tick, clients, sorted, delta_time, i, dgram, cur, socket, status, sentSeq >>

\* receive_packets: recvfrom returns a datagram that has just come in, and
\* its sender.
Recvfrom(datagrams) ==
    /\ pc = "recv"
    /\ socket = <<>>
    /\ \E d \in datagrams : dgram' = d
    /\ pc' = "got"
    /\ out' = NoPacket
    /\ ev' = NoEvent
    /\ hist' = [hist EXCEPT !.read = TRUE]
    /\ UNCHANGED << running, tick, clients, sorted, delta_time, i, cur, socket, status, sentSeq >>

\* receive_packets: recvfrom returns the oldest datagram waiting, and its
\* sender.
RecvQueued ==
    /\ pc = "recv"
    /\ socket # <<>>
    /\ dgram' = Head(socket)
    /\ socket' = Tail(socket)
    /\ pc' = "got"
    /\ out' = NoPacket
    /\ ev' = NoEvent
    /\ hist' = [hist EXCEPT !.read = TRUE,
                  !.owed = IF @ > 0 THEN @ - 1 ELSE 0]
    /\ UNCHANGED << running, tick, clients, sorted, delta_time, i, cur, status, sentSeq >>

\* receive_packets: if (received <= 0) return;
DropEmpty ==
    /\ pc = "got"
    /\ Len(dgram.data) <= 0
    /\ pc' = "loop"
    /\ dgram' = NoPacket
    /\ out' = NoPacket
    /\ ev' = [NoEvent EXCEPT !.input = "empty"]
    /\ hist' = [hist EXCEPT !.gone = {}]
    /\ UNCHANGED << running, tick, clients, sorted, delta_time, i, cur, socket, status, sentSeq >>

\* receive_packets: if (received < 5) continue;
DropShort ==
    /\ pc = "got"
    /\ Len(dgram.data) > 0
    /\ Malformed(Len(dgram.data))
    /\ pc' = "recv"
    /\ dgram' = NoPacket
    /\ out' = NoPacket
    /\ ev' = [NoEvent EXCEPT !.input = "short"]
    /\ hist' = [hist EXCEPT !.gone = {}]
    /\ UNCHANGED << running, tick, clients, sorted, delta_time, i, cur, socket, status, sentSeq >>

\* receive_packets: client = create_client(addr); if (client == NULL)
\* continue; with create_client's qsort when the array is not sorted.
Lookup ==
    /\ pc = "got"
    /\ Len(dgram.data) > 0
    /\ ~Malformed(Len(dgram.data))
    /\ \E arr \in (IF sorted THEN {clients} ELSE qsort(clients)) :
        LET r == create_client(arr, dgram.addr)
        IN  /\ clients' = r.clients
            /\ sorted' = r.sorted
            /\ cur' = r.ret
            /\ pc' = IF r.ret = -1 THEN "recv" ELSE "input"
            /\ dgram' = IF r.ret = -1 THEN NoPacket ELSE dgram
            /\ ev' = [NoEvent EXCEPT !.ret = r.ret,
                        !.connect = IF r.connect THEN dgram.addr ELSE ZeroAddr]
            /\ sentSeq' = IF r.connect THEN [sentSeq EXCEPT ![dgram.addr] = Zero32]
                          ELSE sentSeq
            /\ hist' = [hist EXCEPT
                          !.net[dgram.addr] = IF r.connect THEN @ + 1 ELSE @,
                          !.gone = IF r.ret = -1 THEN {} ELSE @]
    /\ out' = NoPacket
    /\ UNCHANGED << running, tick, delta_time, i, socket, status >>

\* receive_packets: tick = read_uint32(&data[0]); if (tick <=
\* client->net.recv_tick) continue; otherwise take the input.
Input ==
    /\ pc = "input"
    /\ LET c == clients[cur]
           t == read_uint32(SubSeq(dgram.data, 1, 4))
       IN  IF Stale(t, c)
           THEN /\ clients' = clients
                /\ ev' = [NoEvent EXCEPT !.input = "stale"]
           ELSE /\ clients' = [clients EXCEPT ![cur] =
                       AcceptInput(c, t, dgram.data[5], tick)]
                /\ ev' = [NoEvent EXCEPT !.input = "accepted"]
    /\ pc' = "recv"
    /\ dgram' = NoPacket
    /\ cur' = -1
    /\ out' = NoPacket
    /\ hist' = [hist EXCEPT !.gone = {}]
    /\ UNCHANGED << running, tick, sorted, delta_time, i, socket, status, sentSeq >>

(***************************************************************************)
(* The server against the crowd, against one player, and the whole process.*)
(***************************************************************************)
NextCrowd ==
    \/ Advance(Elapsed)
    \/ TicksDone
    \/ TickBegin
    \/ SkipSlot
    \/ Evict
    \/ Dispatch({0}, {"sent"})
    \/ TickEnd
    \/ RecvNothing
    \/ Recvfrom(CrowdDatagrams)
    \/ DropEmpty
    \/ DropShort
    \/ Lookup
    \/ Input

NextPlayer ==
    \/ Advance(Elapsed)
    \/ TicksDone
    \/ TickBegin
    \/ SkipSlot
    \/ Evict
    \/ Dispatch(Hooks, {"sent"})
    \/ TickEnd
    \/ RecvNothing
    \/ Recvfrom(PlayerDatagrams)
    \/ DropEmpty
    \/ DropShort
    \/ Lookup
    \/ Input

NextServer ==
    \/ Socket
    \/ Bind
    \/ Fcntl
    \/ OnInit
    \/ Arrive(ServerDatagrams, FALSE)
    \/ Signal
    \/ Advance(Elapsed)
    \/ TicksDone
    \/ TickBegin
    \/ SkipSlot
    \/ Evict
    \/ Dispatch({Echo}, SendResults)
    \/ TickEnd
    \/ RecvNothing
    \/ RecvQueued
    \/ DropEmpty
    \/ DropShort
    \/ Lookup
    \/ Input

SpecCrowd == Init /\ [][NextCrowd]_vars

SpecPlayer == Init /\ [][NextPlayer]_vars

NextBurst ==
    \/ Arrive(BurstDatagrams, TRUE)
    \/ Advance(BurstElapsed)
    \/ TicksDone
    \/ TickBegin
    \/ SkipSlot
    \/ Evict
    \/ Dispatch({0}, {"sent"})
    \/ TickEnd
    \/ RecvNothing
    \/ RecvQueued
    \/ Lookup
    \/ Input

SpecServer == InitMain /\ [][NextServer]_vars

SpecBurst == Init /\ [][NextBurst]_vars

(***************************************************************************)
(* Reading the registry by address.                                        *)
(***************************************************************************)
ConnectedIn(arr) == { x \in Slots : arr[x].connected }
HasSessionIn(arr, a) == \E x \in Slots : arr[x].connected /\ arr[x].addr = a
SessionIn(arr, a) == arr[CHOOSE x \in Slots : arr[x].connected /\ arr[x].addr = a]
SessionsIn(arr) == { arr[x] : x \in ConnectedIn(arr) }
FullIn(arr) == \A x \in Slots : arr[x].connected

\* The step in which receive_packets calls create_client for dgram.addr.
AtLookup == pc = "got" /\ Len(dgram.data) >= 5

\* The step in which run_tick's loop reaches a connected slot.
AtConnectedSlot == pc = "clients" /\ i < NETWORK_CLIENTS /\ clients[i].connected

(***************************************************************************)
(* C1.  At most one connected session exists per address, in every state;  *)
(* and create_client for an address that has a session returns that        *)
(* session (same field values), connects no further slot and calls no      *)
(* on_connect.                                                             *)
(***************************************************************************)
C1_Unique ==
    \A x, y \in Slots :
        (clients[x].connected /\ clients[y].connected
            /\ clients[x].addr = clients[y].addr) => x = y

C1_FindsExisting ==
    (AtLookup /\ HasSessionIn(clients, dgram.addr)) =>
        /\ ev'.connect = ZeroAddr
        /\ ev'.ret \in Slots
        /\ cur' = ev'.ret
        /\ clients'[cur'] = SessionIn(clients, dgram.addr)
        /\ Cardinality(ConnectedIn(clients')) = Cardinality(ConnectedIn(clients))

C1_OneSessionPerAddress == []C1_Unique /\ [][C1_FindsExisting]_vars

C1_Witness ==
    /\ pc = "input"
    /\ ev.connect = ZeroAddr
    /\ FullIn(clients)
    /\ clients[cur].addr = dgram.addr
    /\ cur # 0
    /\ tick > NETWORK_TIMEOUT

(***************************************************************************)
(* C2.  With every slot connected, create_client for an address without a  *)
(* session returns NULL: the datagram is dropped, the sessions are the     *)
(* same as before with the same field values, all slots stay connected,    *)
(* no callback runs and nothing is sent.  An address that has a session    *)
(* is still resolved to it.                                                *)
(***************************************************************************)
C2_Step ==
    (AtLookup /\ FullIn(clients)) =>
        IF HasSessionIn(clients, dgram.addr)
        THEN /\ ev'.ret \in Slots
             /\ clients'[ev'.ret] = SessionIn(clients, dgram.addr)
             /\ pc' = "input"
        ELSE /\ ev'.ret = -1
             /\ pc' = "recv"
             /\ SessionsIn(clients') = SessionsIn(clients)
             /\ FullIn(clients')
             /\ ev'.connect = ZeroAddr
             /\ ev'.disconnect = ZeroAddr
             /\ out' = NoPacket
             /\ sentSeq' = sentSeq

C2_FullRegistryRefuses == [][C2_Step]_vars

C2_Witness ==
    /\ ev.ret = -1
    /\ FullIn(clients)
    /\ pc = "recv"

(***************************************************************************)
(* C3.  With fewer than NETWORK_CLIENTS sessions connected, create_client  *)
(* for an address without a session creates one: it never reports full.   *)
(* After the sort, slot 0 is unconnected whenever any slot is.             *)
(***************************************************************************)
C3_Step ==
    (AtLookup /\ ~FullIn(clients) /\ ~HasSessionIn(clients, dgram.addr)) =>
        /\ ev'.ret \in Slots
        /\ clients'[ev'.ret].connected
        /\ clients'[ev'.ret].addr = dgram.addr
        /\ ev'.connect = dgram.addr
        /\ Cardinality(ConnectedIn(clients')) = Cardinality(ConnectedIn(clients)) + 1
        /\ \A a \in Addresses :
              HasSessionIn(clients, a) => HasSessionIn(clients', a)

C3_FreeSlotFirst == (sorted /\ ~FullIn(clients)) => ~clients[0].connected

C3_RoomMeansSuccess == []C3_FreeSlotFirst /\ [][C3_Step]_vars

C3_Witness ==
    /\ ev.connect # ZeroAddr
    /\ FullIn(clients)
    /\ tick > NETWORK_TIMEOUT + 1

(***************************************************************************)
(* Claim-side arithmetic, independent of the operators that model code.    *)
(***************************************************************************)
Leq32(x, y) == x[1] < y[1] \/ (x[1] = y[1] /\ x[2] <= y[2])
Bit(n, k) == (n \div (2 ^ k)) % 2

\* The step in which receive_packets tests the sequence number of the
\* datagram in hand against the client create_client returned.
AtInput == pc = "input"

(***************************************************************************)
(* C4.  A session's recv_tick never decreases while the session lives, and *)
(* a datagram of at least 5 bytes whose sequence number is not above the   *)
(* session's recv_tick leaves the session's down, pressed, last_tick and   *)
(* recv_tick (and every other slot) as they were: neither the lookup of    *)
(* the session nor the sequence test changes it.                           *)
(***************************************************************************)
C4_Monotone ==
    \A a \in Addresses :
        (HasSessionIn(clients, a) /\ HasSessionIn(clients', a)
            /\ ev'.connect # a /\ ev'.disconnect # a) =>
        Leq32(SessionIn(clients, a).recv_tick, SessionIn(clients', a).recv_tick)

C4_StaleIgnored ==
    (AtInput /\ Len(dgram.data) >= 5
        /\ Leq32(WireSeq(dgram.data), SessionIn(clients, dgram.addr).recv_tick)) =>
        /\ SessionIn(clients', dgram.addr).down = SessionIn(clients, dgram.addr).down
        /\ SessionIn(clients', dgram.addr).pressed = SessionIn(clients, dgram.addr).pressed
        /\ SessionIn(clients', dgram.addr).last_tick = SessionIn(clients, dgram.addr).last_tick
        /\ SessionIn(clients', dgram.addr).recv_tick = SessionIn(clients, dgram.addr).recv_tick
        /\ clients' = clients

C4_LookupKeeps ==
    (AtLookup /\ HasSessionIn(clients, dgram.addr)) =>
        SessionIn(clients', dgram.addr) = SessionIn(clients, dgram.addr)

C4_SequenceMonotone == [][C4_Monotone /\ C4_StaleIgnored /\ C4_LookupKeeps]_vars

C4_Witness ==
    /\ ev.input = "stale"
    /\ HasSessionIn(clients, FirstPeer)
    /\ ~HasSessionIn(clients, SecondPeer)
    /\ SessionIn(clients, FirstPeer).recv_tick = <<65535, 65535>>
    /\ SessionIn(clients, FirstPeer).pressed # 0
    /\ tick > 0

(***************************************************************************)
(* C5.  A datagram whose sequence number is above the session's recv_tick  *)
(* sets last_tick to the global tick, recv_tick to the sequence number,    *)
(* pressed to the bits set in the datagram's buttons and clear in the old  *)
(* down, and down to the buttons; down = 3 and buttons = 6 give pressed =  *)
(* 4.                                                                      *)
(***************************************************************************)
C5_Step ==
    (AtInput /\ Len(dgram.data) >= 5
        /\ ~Leq32(WireSeq(dgram.data), SessionIn(clients, dgram.addr).recv_tick)) =>
        LET old == SessionIn(clients, dgram.addr)
            new == SessionIn(clients', dgram.addr)
            buttons == dgram.data[5]
        IN  /\ new.last_tick = tick
            /\ new.recv_tick = WireSeq(dgram.data)
            /\ new.down = buttons
            /\ new.pressed \in 0 .. 255
            /\ \A k \in 0 .. 7 :
                  Bit(new.pressed, k) = 1 <=> (Bit(buttons, k) = 1 /\ Bit(old.down, k) = 0)
            /\ (old.down = 3 /\ buttons = 6) => new.pressed = 4
            /\ new = [old EXCEPT !.last_tick = new.last_tick, !.recv_tick = new.recv_tick,
                                 !.down = new.down, !.pressed = new.pressed]

C5_AcceptedInput == [][C5_Step]_vars

C5_Witness ==
    /\ ev.input = "accepted"
    /\ HasSessionIn(clients, FirstPeer)
    /\ ~HasSessionIn(clients, SecondPeer)
    /\ SessionIn(clients, FirstPeer).down = 6
    /\ SessionIn(clients, FirstPeer).pressed = 4
    /\ SessionIn(clients, FirstPeer).recv_tick = <<65535, 65535>>
    /\ SessionIn(clients, FirstPeer).last_tick = tick
    /\ tick > 0

\* The step in which run_tick's loop reaches a connected slot whose
\* silence is within the timeout: the slot is dispatched.
AtLiveSlot == AtConnectedSlot /\ tick - clients[i].last_tick <= NETWORK_TIMEOUT

Succ32(x) == IF x[2] = 65535 THEN << (x[1] + 1) % 65536, 0 >> ELSE << x[1], x[2] + 1 >>
SignedByte(b) == IF b >= 128 THEN b - 256 ELSE b

(***************************************************************************)
(* C6.  After handle_client has dispatched a connected session, pressed    *)
(* and output.audio are 0, whether or not a datagram arrived since the     *)
(* previous tick; down, recv_tick, last_tick, the address and the          *)
(* connected flag are as before, music and the tile grid are as on_client  *)
(* left them (unchanged by the empty on_client shipped), and no other slot *)
(* changes.                                                                *)
(***************************************************************************)
C6_Step ==
    AtLiveSlot =>
        LET old == clients[i]
            new == clients'[i]
        IN  /\ new.pressed = 0
            /\ new.audio = Zero32
            /\ new.down = old.down
            /\ new.recv_tick = old.recv_tick
            /\ new.last_tick = old.last_tick
            /\ new.addr = old.addr
            /\ new.connected
            /\ ev'.hook \in Hooks
            /\ new.music = on_client(old, ev'.hook).music
            /\ new.video = on_client(old, ev'.hook).video
            /\ ev'.hook = 0 => (new.music = old.music /\ new.video = old.video)
            /\ \A x \in Slots \ {i} : clients'[x] = clients[x]

C6_DispatchResets == [][C6_Step]_vars

C6_Witness ==
    /\ ev.hook = 0
    /\ out.addr = FirstPeer
    /\ HasSessionIn(clients, FirstPeer)
    /\ SessionIn(clients, FirstPeer).pressed = 0
    /\ SessionIn(clients, FirstPeer).audio = Zero32
    /\ SessionIn(clients, FirstPeer).down = 6
    /\ SessionIn(clients, FirstPeer).music = 7
    /\ SessionIn(clients, FirstPeer).video = GridA
    /\ SessionIn(clients, FirstPeer).last_tick + NETWORK_TIMEOUT = tick

(***************************************************************************)
(* C7.  When run_tick's loop reaches a connected session whose silence     *)
(* tick - last_tick exceeds NETWORK_TIMEOUT, the session is destroyed in   *)
(* that step (on_disconnect, no on_client, nothing sent); a session whose  *)
(* silence is within the timeout is dispatched and stays, and a session    *)
(* ends in no other way.  A datagram is sent only to an address that has   *)
(* a session: none goes to an evicted address until it connects again.     *)
(***************************************************************************)
C7_Step ==
    /\ AtConnectedSlot =>
          IF tick - clients[i].last_tick > NETWORK_TIMEOUT
          THEN /\ clients'[i] = ZeroClient
               /\ ~HasSessionIn(clients', clients[i].addr)
               /\ ev'.disconnect = clients[i].addr
               /\ ev'.hook = -1
               /\ out' = NoPacket
          ELSE /\ clients'[i].connected
               /\ clients'[i].addr = clients[i].addr
               /\ ev'.disconnect = ZeroAddr
               /\ ev'.hook # -1
               /\ out'.addr = clients[i].addr
    /\ \A a \in Addresses :
          (HasSessionIn(clients, a) /\ ~HasSessionIn(clients', a)) =>
              /\ AtConnectedSlot
              /\ clients[i].addr = a
              /\ tick - clients[i].last_tick > NETWORK_TIMEOUT

C7_SentOnlyToSessions == out.data # <<>> => HasSessionIn(clients, out.addr)

C7_Timeout == []C7_SentOnlyToSessions /\ [][C7_Step]_vars

C7_Witness ==
    /\ ev.disconnect # ZeroAddr
    /\ \E x \in Slots :
          /\ clients[x].connected
          /\ tick - clients[x].last_tick = NETWORK_TIMEOUT
          /\ clients[x].send_tick # Zero32

(***************************************************************************)
(* C8.  The first datagram sent to a session after its creation carries    *)
(* sequence 1, and every dispatch of the session sends exactly one         *)
(* datagram, to the session's address, whose sequence is that of the       *)
(* previous one plus 1.  (sentSeq holds, per address, the sequence last    *)
(* sent since the session was created, zero when none was.)                *)
(***************************************************************************)
C8_Step ==
    /\ out'.data # <<>> =>
          /\ AtLiveSlot
          /\ out'.addr = clients[i].addr
          /\ WireSeq(out'.data) = Succ32(sentSeq[out'.addr])
          /\ sentSeq'[out'.addr] = WireSeq(out'.data)
    /\ AtLiveSlot => out'.data # <<>>
    /\ ev'.connect # ZeroAddr => sentSeq'[ev'.connect] = Zero32
    /\ \A a \in Addresses :
          (out'.addr # a /\ ev'.connect # a /\ ev'.disconnect # a) =>
              sentSeq'[a] = sentSeq[a]

C8_OutboundSequence == [][C8_Step]_vars

C8_Witness ==
    /\ out.addr = FirstPeer
    /\ WireSeq(out.data) = <<0, 3>>
    /\ HasSessionIn(clients, SecondPeer)
    /\ SessionIn(clients, SecondPeer).send_tick = <<0, 1>>
    /\ clients[0].addr = SecondPeer

(***************************************************************************)
(* C9.  A session create_client has just allocated is connected, has       *)
(* music = -1, send_tick = recv_tick = 0 and last_tick = the global tick.  *)
(***************************************************************************)
C9_FreshSession ==
    ev.connect # ZeroAddr =>
        /\ cur \in Slots
        /\ clients[cur].connected
        /\ clients[cur].addr = ev.connect
        /\ clients[cur].music = -1
        /\ clients[cur].send_tick = Zero32
        /\ clients[cur].recv_tick = Zero32
        /\ clients[cur].last_tick = tick

(***************************************************************************)
(* C10.  read_uint32 of the four bytes write_uint32 produces gives the     *)
(* value back, the most significant byte first; and the datagram           *)
(* handle_client sends decodes to the session's sequence number (offset    *)
(* 0), sound flags (offset 4), music id as one two's-complement byte       *)
(* (offset 8) and tile grid, row after row (offset 9).                     *)
(***************************************************************************)
Samples16 == {0, 1, 255, 256, 258, 32768, 65535}

C10_RoundTrip ==
    \A x \in Samples16 \X Samples16 :
        /\ read_uint32(write_uint32(x)) = x
        /\ \A k \in 1 .. 4 : write_uint32(x)[k] \in Byte
        /\ write_uint32(x)[1] * 256 + write_uint32(x)[2] = x[1]
        /\ write_uint32(x)[3] * 256 + write_uint32(x)[4] = x[2]

C10_Step ==
    AtLiveSlot =>
        LET sent == on_client(clients[i], ev'.hook)
            data == out'.data
        IN  /\ Len(data) = 9 + VIDEO_ROWS * VIDEO_COLS
            /\ \A k \in 1 .. Len(data) : data[k] \in Byte
            /\ read_uint32(SubSeq(data, 1, 4)) = clients'[i].send_tick
            /\ read_uint32(SubSeq(data, 5, 8)) = sent.audio
            /\ SignedByte(data[9]) = sent.music
            /\ \A r \in 0 .. (VIDEO_ROWS - 1), c \in 0 .. (VIDEO_COLS - 1) :
                  data[10 + r * VIDEO_COLS + c] = sent.video[r][c]

C10_CodecRoundTrip == []C10_RoundTrip /\ [][C10_Step]_vars

C10_Witness ==
    /\ ev.hook = 2
    /\ SubSeq(out.data, 1, 4) = <<0, 0, 0, 2>>
    /\ SubSeq(out.data, 5, 8) = <<1, 2, 3, 4>>
    /\ out.data[9] = 128
    /\ out.data[11] = 253
    /\ HasSessionIn(clients, out.addr)
    /\ SessionIn(clients, out.addr).music = -128

(***************************************************************************)
(* C11.  A session that exists when the pass of tick 1 reaches it was      *)
(* created while state.tick was 0, with down = 0; if it holds recv_tick =  *)
(* 1 and down = BUTTON_A, the one datagram it accepted was seq = 1,        *)
(* buttons = BUTTON_A.  Its dispatch in tick 1 calls on_client with        *)
(* pressed = 1 (the Echo callback copies the pressed it sees into          *)
(* output.music, which travels at offset 8), sends a datagram with         *)
(* sequence number 1 to the session's address, and leaves pressed = 0.     *)
(***************************************************************************)
\* The step is one the program takes, not the end of the process by a signal.
ProgramStep == pc' # "killed"

C11_Step ==
    (AtLiveSlot /\ ProgramStep /\ tick = 1
        /\ clients[i].recv_tick = <<0, 1>> /\ clients[i].down = BUTTON_A) =>
        /\ clients[i].pressed = 1
        /\ ev'.hook # -1
        /\ out'.addr = clients[i].addr
        /\ read_uint32(SubSeq(out'.data, 1, 4)) = <<0, 1>>
        /\ (ev'.hook = Echo => out'.data[9] = 1)
        /\ clients'[i].pressed = 0
        /\ clients'[i].down = BUTTON_A

C11_ScenarioFirstPress == [][C11_Step]_vars

C11_Witness ==
    /\ tick = 1
    /\ ev.hook = Echo
    /\ out.addr = FirstPeer
    /\ read_uint32(SubSeq(out.data, 1, 4)) = <<0, 1>>
    /\ out.data[9] = 1
    /\ HasSessionIn(clients, FirstPeer)
    /\ SessionIn(clients, FirstPeer).pressed = 0
    /\ SessionIn(clients, FirstPeer).down = BUTTON_A
    /\ SessionIn(clients, FirstPeer).last_tick = 0

(***************************************************************************)
(* C12.  The step that handles a datagram of fewer than 5 bytes changes    *)
(* nothing of the server: the client array (so no session is created and   *)
(* no field of a session changes), the sorted flag and the tick stay as    *)
(* they are, no callback runs, nothing is sent.                            *)
(***************************************************************************)
C12_Step ==
    (pc = "got" /\ Len(dgram.data) < 5) =>
        /\ clients' = clients
        /\ sorted' = sorted
        /\ tick' = tick
        /\ delta_time' = delta_time
        /\ ev'.connect = ZeroAddr
        /\ ev'.disconnect = ZeroAddr
        /\ ev'.hook = -1
        /\ ev'.on_tick = -1
        /\ ev'.ret = -2
        /\ out' = NoPacket
        /\ hist'.net = hist.net

C12_ShortDatagramIgnored == [][C12_Step]_vars

\* A datagram of four bytes from the first peer has just been dropped while
\* that peer had no session, a slot was free and another peer had a session.
C12_Witness ==
    /\ ev.input = "short"
    /\ ~HasSessionIn(clients, FirstPeer)
    /\ ~FullIn(clients)
    /\ ConnectedIn(clients) # {}

(***************************************************************************)
(* The running pass of run_tick, per address.                              *)
(***************************************************************************)
Visits(a) == hist.pass.evicted[a] + hist.pass.called[a]
PassOver == pc = "clients" /\ i >= NETWORK_CLIENTS

(***************************************************************************)
(* C13.  In a pass of run_tick no address is visited twice, only           *)
(* addresses connected when the pass began are visited, each visit is      *)
(* either destroy_client or on_client with one sendto, and when the loop   *)
(* has run out every address connected at the beginning has been visited   *)
(* once.  Step by step: an eviction calls on_disconnect, no on_client and  *)
(* sends nothing; a dispatch calls on_client once and sends one datagram   *)
(* to that client; every connected slot the loop reaches is one or the     *)
(* other.                                                                  *)
(***************************************************************************)
C13_Pass ==
    pc = "clients" =>
        /\ \A a \in Addresses :
              /\ Visits(a) <= 1
              /\ Visits(a) = 1 => a \in hist.pass.began
              /\ hist.pass.sent[a] = hist.pass.called[a]
        /\ PassOver => \A a \in hist.pass.began : Visits(a) = 1

C13_Step ==
    /\ AtConnectedSlot =>
          /\ Visits(clients[i].addr) = 0
          /\ \/ /\ ev'.disconnect = clients[i].addr
                /\ ev'.hook = -1
                /\ out' = NoPacket
                /\ hist'.pass.evicted[clients[i].addr] = 1
             \/ /\ ev'.disconnect = ZeroAddr
                /\ ev'.hook # -1
                /\ out'.addr = clients[i].addr
                /\ out'.data = Packet(on_client(clients[i], ev'.hook), clients'[i].send_tick)
                /\ hist'.pass.called[clients[i].addr] = 1
                /\ hist'.pass.sent[clients[i].addr] = 1
    /\ (pc = "clients" /\ pc' = "clients") => i' = i + 1

C13_EveryClientOnce == []C13_Pass /\ [][C13_Step]_vars

\* A pass has run out in which one client was evicted and another handled.
C13_Witness ==
    /\ PassOver
    /\ Cardinality(hist.pass.began) = 2
    /\ \E a, b \in hist.pass.began :
          /\ hist.pass.evicted[a] = 1
          /\ hist.pass.called[b] = 1
          /\ hist.pass.sent[b] = 1

(***************************************************************************)
(* C14.  A dispatch whose sendto fails leaves the pass going: the loop     *)
(* moves to the next slot, the tick is the same, the client stays          *)
(* connected with what a successful dispatch leaves in it, no other slot   *)
(* changes and the process does not exit.  When the loop of a pass with a  *)
(* failed sendto has run out, every address connected at its beginning     *)
(* has been visited once, the addresses that failed still have their       *)
(* sessions, and run_tick returns to the catch-up loop.                    *)
(***************************************************************************)
C14_Step ==
    /\ (ProgramStep /\ ev'.sendto = "failed") =>
          /\ AtLiveSlot
          /\ pc' = "clients"
          /\ i' = i + 1
          /\ tick' = tick
          /\ status' = -1
          /\ clients'[i] = handle_client(clients[i], ev'.hook).client
          /\ clients'[i].connected
          /\ \A x \in Slots \ {i} : clients'[x] = clients[x]
    /\ (ProgramStep /\ PassOver /\ hist.pass.failed # {}) =>
          /\ pc' = "ticks"
          /\ delta_time' = delta_time - TICK_TIME
          /\ tick' = tick

C14_Pass ==
    (PassOver /\ hist.pass.failed # {}) =>
        /\ \A a \in hist.pass.began : Visits(a) = 1
        /\ \A a \in hist.pass.failed : HasSessionIn(clients, a)

C14_SendFailureAbsorbed == []C14_Pass /\ [][C14_Step]_vars

\* The sendto to the client in slot 0 failed, the client in slot 1 was
\* handled after it and the loop has run out.
C14_Witness ==
    /\ PassOver
    /\ NETWORK_CLIENTS >= 2
    /\ clients[0].connected
    /\ hist.pass.failed = {clients[0].addr}
    /\ clients[1].connected
    /\ hist.pass.called[clients[1].addr] = 1
    /\ tick >= 2

(***************************************************************************)
(* C15.  state.tick changes only in the head of run_tick, by exactly +1,   *)
(* and on_tick runs in that step and sees the incremented value; the head  *)
(* touches no client, so every eviction and dispatch of the step comes     *)
(* after it, in the loop, where the tick stays put and on_tick is not      *)
(* called again.  Every entry into the loop goes through the head.         *)
(***************************************************************************)
C15_Step ==
    /\ tick' # tick =>
          /\ tick' = tick + 1
          /\ ev'.on_tick = tick'
          /\ pc = "ticks" /\ pc' = "clients" /\ i' = 0
          /\ clients' = clients
          /\ ev'.disconnect = ZeroAddr
          /\ ev'.hook = -1
          /\ out' = NoPacket
    /\ ev'.on_tick # -1 => tick' = tick + 1
    /\ pc' = "clients" => (pc = "clients" \/ tick' = tick + 1)
    /\ (ev'.disconnect # ZeroAddr \/ ev'.hook # -1) =>
          /\ pc = "clients" /\ pc' = "clients"
          /\ tick' = tick
          /\ ev'.on_tick = -1

C15_TickOncePerStep == [][C15_Step]_vars

\* on_tick has just run for tick 3, with clients waiting for the loop.
C15_Witness ==
    /\ ev.on_tick = 3
    /\ tick = 3
    /\ pc = "clients" /\ i = 0
    /\ Cardinality(ConnectedIn(clients)) = 2

(***************************************************************************)
(* C16.  For every address the calls of on_connect and on_disconnect       *)
(* alternate, on_connect first: on_connect runs only when the two counts   *)
(* are equal, on_disconnect only when on_connect is one ahead, so the      *)
(* difference is always 0 or 1, and it is 1 exactly while the address has  *)
(* a session.  Summed over the addresses the difference is the number of   *)
(* connected slots.  A step that gives an address a session calls          *)
(* on_connect for it once, a step that takes the session away calls        *)
(* on_disconnect for it once, and no other step calls either.              *)
(***************************************************************************)
RECURSIVE SumOver(_, _)
SumOver(f, S) ==
    IF S = {} THEN 0
    ELSE LET a == CHOOSE x \in S : TRUE IN f[a] + SumOver(f, S \ {a})

Online(a) == hist.net[a]

C16_Balance ==
    /\ \A a \in Addresses :
          /\ Online(a) \in {0, 1}
          /\ Online(a) = 1 <=> HasSessionIn(clients, a)
    /\ SumOver(hist.net, Addresses) = Cardinality(ConnectedIn(clients))

C16_Step ==
    \A a \in Addresses :
        /\ (~HasSessionIn(clients, a) /\ HasSessionIn(clients', a)) <=> ev'.connect = a
        /\ (HasSessionIn(clients, a) /\ ~HasSessionIn(clients', a)) <=> ev'.disconnect = a
        /\ ev'.connect = a => (Online(a) = 0 /\ hist'.net[a] = 1)
        /\ ev'.disconnect = a => (Online(a) = 1 /\ hist'.net[a] = 0)
        /\ (ev'.connect # a /\ ev'.disconnect # a) => hist'.net[a] = hist.net[a]

C16_ConnectDisconnectAlternate == []C16_Balance /\ [][C16_Step]_vars

\* The first peer's session has just been removed, after its on_connect
\* and with on_disconnect, while another peer stays connected.
C16_Witness ==
    /\ ev.disconnect = FirstPeer
    /\ Online(FirstPeer) = 0
    /\ ~HasSessionIn(clients, FirstPeer)
    /\ Cardinality(ConnectedIn(clients)) = NETWORK_CLIENTS - 1
    /\ \A a \in Addresses : HasSessionIn(clients, a) => Online(a) = 1

(***************************************************************************)
(* C17.  When receive_packets has returned, none of the datagrams that     *)
(* waited on the socket when it was called is left unread.                 *)
(***************************************************************************)
C17_DrainsAllPending == pc = "loop" => hist.owed = 0

(***************************************************************************)
(* C18.  Time in integer units, TICK_TIME of them to a tick.  Reading the  *)
(* clock adds the time passed to delta_time; each run of run_tick takes    *)
(* TICK_TIME off it; the catch-up loop goes on while a tick is due and     *)
(* receive_packets is not called before it ends.  When it ends,            *)
(* 0 <= delta_time < TICK_TIME, the ticks it ran are delta_time as the     *)
(* loop found it divided by TICK_TIME (rounded down), and the ticks run    *)
(* since the start are the whole time passed divided by TICK_TIME          *)
(* (rounded down), delta_time being the remainder.                         *)
(***************************************************************************)
C18_Step ==
    /\ pc = "loop" =>
          /\ pc' = "ticks"
          /\ delta_time' = delta_time + (hist'.total - hist.total)
          /\ hist'.due = delta_time'
          /\ hist'.total - hist.total \in Elapsed
    /\ (pc = "ticks" /\ CatchUp(delta_time)) =>
          /\ pc' = "clients"
          /\ hist'.burst = hist.burst + 1
    /\ (pc = "clients" /\ pc' = "ticks") => delta_time' = delta_time - TICK_TIME
    /\ pc' = "recv" =>
          /\ pc \in {"ticks", "recv", "got", "input"}
          /\ delta_time' = delta_time
    /\ (pc = "ticks" /\ pc' = "recv") =>
          /\ 0 <= delta_time /\ delta_time < TICK_TIME
          /\ hist.burst = hist.due \div TICK_TIME
          /\ delta_time = hist.due % TICK_TIME
          /\ tick = hist.total \div TICK_TIME
          /\ delta_time = hist.total % TICK_TIME

C18_TickAccumulator == [][C18_Step]_vars

\* A reading of the clock found more than two ticks' time due; the catch-up
\* loop has run two ticks back to back and receive_packets is next.
C18_Witness ==
    /\ pc = "ticks"
    /\ ~CatchUp(delta_time)
    /\ hist.due = 2 * TICK_TIME + 1
    /\ hist.burst = 2
    /\ delta_time = 1
    /\ tick = 2

(***************************************************************************)
(* C19.  When a shutdown signal has ended a server that had got as far as  *)
(* on_init, on_quit has been called exactly once.                          *)
(***************************************************************************)
C19_ShutdownCallsQuit ==
    (pc = "killed" /\ hist.on_init = 1) => hist.on_quit = 1

(***************************************************************************)
(* C20.  The process has exited only with status EXIT_FAILURE, and then    *)
(* before run_server: on_init was not called, no tick ran, no time was     *)
(* measured, recvfrom was never called and no client exists.  The step     *)
(* that exits is a failed socket(), bind() or fcntl(); when all three      *)
(* succeed the server reaches on_init.  From on_init on no step of the     *)
(* program exits, whatever it handles: an empty or short datagram, a stale *)
(* sequence number, the full registry, a timeout or a failed sendto.       *)
(***************************************************************************)
Startup == {"main", "bind", "fcntl"}
Serving == {"init", "loop", "ticks", "clients", "recv", "got", "input"}

C20_Exit ==
    /\ status # -1 <=> pc = "exit"
    /\ pc = "exit" =>
          /\ status = EXIT_FAILURE
          /\ hist.on_init = 0
          /\ tick = 0
          /\ hist.total = 0
          /\ ~hist.read
          /\ ConnectedIn(clients) = {}
    /\ pc \in Startup => (hist.on_init = 0 /\ tick = 0 /\ ~hist.read)
    /\ pc \in Serving \ {"init"} => hist.on_init = 1

C20_Step ==
    /\ (pc # "exit" /\ pc' = "exit") => pc \in Startup
    /\ (pc \in Startup /\ ProgramStep) =>
          pc' \in {"exit", "bind", "fcntl", "init"}
    /\ (pc \in Serving /\ ProgramStep) =>
          /\ pc' \in Serving
          /\ status' = -1
    /\ (ProgramStep /\ ev'.input \in {"empty", "short", "stale"}) => pc' \in Serving
    /\ (ProgramStep /\ ev'.ret = -1) => pc' = "recv"
    /\ (ProgramStep /\ ev'.disconnect # ZeroAddr) => pc' = "clients"
    /\ (ProgramStep /\ ev'.sendto = "failed") => pc' = "clients"
    /\ pc = "exit" => UNCHANGED vars

C20_OnlyStartupFailureExits == []C20_Exit /\ [][C20_Step]_vars

\* The process has exited with EXIT_FAILURE.
C20_Witness ==
    /\ pc = "exit"
    /\ status = EXIT_FAILURE
    /\ running
    /\ hist.on_init = 0

(***************************************************************************)
(* C21.  The array is one representation of a map from address to session: *)
(* every connected slot is the map's entry for its address and no address  *)
(* has two slots; create_client's lookup returns the session with exactly  *)
(* the field values the map holds for the address (a new session's defaults*)
(* when it had none and there is room, NULL when there is none); every     *)
(* step is a lookup, a create, a remove or an update of one entry of the   *)
(* map; create_client's qsort changes the slot a session sits in and none  *)
(* of its fields.                                                          *)
(***************************************************************************)
\* The map the array stands for; ZeroClient where an address has no session.
Registry(arr) ==
    [a \in Addresses |-> IF HasSessionIn(arr, a) THEN SessionIn(arr, a) ELSE ZeroClient]

C21_Represents ==
    /\ \A x \in ConnectedIn(clients) :
        /\ clients[x].addr \in Addresses
        /\ Registry(clients)[clients[x].addr] = clients[x]
    /\ Cardinality(ConnectedIn(clients))
           = Cardinality({ a \in Addresses : Registry(clients)[a].connected })

C21_Lookup ==
    AtLookup =>
        LET a == dgram.addr
            m == Registry(clients)
            room == Cardinality(ConnectedIn(clients)) < NETWORK_CLIENTS
        IN  /\ m[a].connected =>
                /\ ev'.ret \in Slots
                /\ clients'[ev'.ret] = m[a]
                /\ Registry(clients') = m
            /\ (~m[a].connected /\ room) =>
                /\ ev'.ret \in Slots
                /\ clients'[ev'.ret] = NewClient(a)
                /\ Registry(clients') = [m EXCEPT ![a] = NewClient(a)]
            /\ (~m[a].connected /\ ~room) =>
                /\ ev'.ret = -1
                /\ Registry(clients') = m

C21_MapStep ==
    LET m == Registry(clients)
        n == Registry(clients')
    IN  \/ n = m
        \/ /\ AtLookup
           /\ ~m[dgram.addr].connected
           /\ n = [m EXCEPT ![dgram.addr] = NewClient(dgram.addr)]
        \/ \E a \in Addresses :
            /\ m[a].connected
            /\ ev'.disconnect = a
            /\ n = [m EXCEPT ![a] = ZeroClient]
        \/ \E a \in Addresses :
            /\ pc \in {"clients", "input"}
            /\ m[a].connected
            /\ n[a].connected
            /\ n[a].addr = a
            /\ n = [m EXCEPT ![a] = n[a]]

C21_RegistryRefinesMap == []C21_Represents /\ [][C21_Lookup /\ C21_MapStep]_vars

\* A lookup has found a session that has sent and received, in a slot other
\* than slot 0, where every session is created: the qsort has moved it.
C21_Witness ==
    /\ pc = "input"
    /\ ev.ret \in Slots \ {0}
    /\ ev.connect = ZeroAddr
    /\ clients[ev.ret].addr = dgram.addr
    /\ clients[ev.ret].send_tick # Zero32
    /\ clients[ev.ret].recv_tick # Zero32
    /\ \E x \in Slots : x # ev.ret /\ clients[x].connected /\ clients[x].send_tick = Zero32

(***************************************************************************)
(* C22.  destroy_client leaves the slot with every field at the            *)
(* unconnected default, and the address without a session.  A session      *)
(* created afterwards, for the same address or another, has nothing of the *)
(* destroyed one: its receive and send sequence numbers are 0, no button   *)
(* is down, and the first datagram sent to it carries sequence number 1.   *)
(***************************************************************************)
C22_Reset ==
    (AtConnectedSlot /\ TimedOut(clients[i], tick)) =>
        /\ ev'.disconnect = clients[i].addr
        /\ clients'[i] = ZeroClient
        /\ ~HasSessionIn(clients', clients[i].addr)

C22_Fresh ==
    ev'.connect # ZeroAddr =>
        /\ ev'.ret \in Slots
        /\ clients'[ev'.ret] = NewClient(ev'.connect)
        /\ clients'[ev'.ret].recv_tick = Zero32
        /\ clients'[ev'.ret].send_tick = Zero32
        /\ clients'[ev'.ret].down = 0
        /\ clients'[ev'.ret].pressed = 0
        /\ sentSeq'[ev'.connect] = Zero32

C22_FirstSeq ==
    (AtConnectedSlot /\ ~TimedOut(clients[i], tick) /\ sentSeq[clients[i].addr] = Zero32) =>
        /\ out'.addr = clients[i].addr
        /\ WireSeq(out'.data) = <<0, 1>>

C22_EvictionLeavesNothing == [][C22_Reset /\ C22_Fresh /\ C22_FirstSeq]_vars

\* An address whose session the catch-up loop has just destroyed, after it
\* had received and been sent to, has a session again, made by the first
\* datagram read since.
C22_Witness ==
    /\ pc = "input"
    /\ ev.connect = FirstPeer
    /\ FirstPeer \in hist.gone
    /\ dgram.addr = FirstPeer
    /\ clients[cur] = NewClient(FirstPeer)
    /\ WireSeq(dgram.data) = <<0, 2>>

(***************************************************************************)
(* C23.  Sequence numbers are compared as 32-bit unsigned numbers, without *)
(* wraparound.  A datagram with sequence number 0 is never accepted.  Once *)
(* a session has accepted 2^32 - 1 it accepts nothing more while it lives: *)
(* its recv_tick and its last_tick stay as they are, whatever arrives, and *)
(* it does not outlive last_tick + NETWORK_TIMEOUT: the pass of run_tick   *)
(* for the tick after that destroys it.                                    *)
(***************************************************************************)
Max32 == <<65535, 65535>>

C23_ZeroNeverAccepted ==
    (AtInput /\ WireSeq(dgram.data) = Zero32) =>
        /\ ev'.input = "stale"
        /\ clients' = clients

C23_NothingAfterMax ==
    (AtInput /\ clients[cur].recv_tick = Max32) =>
        /\ ev'.input = "stale"
        /\ clients' = clients

C23_Frozen ==
    \A x \in Slots :
        (clients[x].recv_tick = Max32 /\ clients[x].connected) =>
            \A y \in Slots :
                (clients'[y].connected /\ clients'[y].addr = clients[x].addr) =>
                    /\ clients'[y].recv_tick = Max32
                    /\ clients'[y].last_tick = clients[x].last_tick

C23_Doomed ==
    \A x \in Slots :
        (clients[x].connected /\ clients[x].recv_tick = Max32) =>
            \/ tick - clients[x].last_tick <= NETWORK_TIMEOUT
            \/ /\ tick - clients[x].last_tick = NETWORK_TIMEOUT + 1
               /\ pc = "clients"
               /\ i <= x

C23_NoWraparound ==
    []C23_Doomed /\ [][C23_ZeroNeverAccepted /\ C23_NothingAfterMax /\ C23_Frozen]_vars

\* The one session there is has accepted 2^32 - 1 in an earlier tick and has
\* just been sent another datagram, which was dropped; the next tick is
\* its last.
C23_Witness ==
    /\ ev.input = "stale"
    /\ \A x \in ConnectedIn(clients) : clients[x].addr = FirstPeer
    /\ HasSessionIn(clients, FirstPeer)
    /\ SessionIn(clients, FirstPeer).recv_tick = Max32
    /\ SessionIn(clients, FirstPeer).last_tick > 0
    /\ tick - SessionIn(clients, FirstPeer).last_tick = NETWORK_TIMEOUT

(***************************************************************************)
(* C24.  An accepted datagram overwrites pressed, it does not add to it:   *)
(* pressed becomes the buttons of the datagram that were not down before   *)
(* it, whatever pressed was, and no step but handle_client changes it      *)
(* until the next accepted datagram.  So what on_client finds in pressed   *)
(* when several datagrams were accepted since the last dispatch is (~down  *)
(* before the last of them) & (the buttons of the last of them): an edge   *)
(* an earlier one registered is lost unless the last one sets it anew.     *)
(***************************************************************************)
C24_Overwritten ==
    (AtInput /\ ~Leq32(WireSeq(dgram.data), clients[cur].recv_tick)) =>
        /\ ev'.input = "accepted"
        /\ clients'[cur].pressed = BitAnd(255 - clients[cur].down, dgram.data[5], 8)
        /\ \A k \in 0 .. 7 :
            Bit(clients'[cur].pressed, k) = 1 <=>
                (Bit(clients[cur].down, k) = 0 /\ Bit(dgram.data[5], k) = 1)

C24_KeptUntilDispatch ==
    (ev'.input # "accepted" /\ ev'.hook = -1) =>
        \A x \in Slots :
            clients[x].connected =>
                \A y \in Slots :
                    (clients'[y].connected /\ clients'[y].addr = clients[x].addr) =>
                        /\ clients'[y].pressed = clients[x].pressed
                        /\ clients'[y].down = clients[x].down

C24_LastPacketDecides == [][C24_Overwritten /\ C24_KeptUntilDispatch]_vars

\* A session that has not been dispatched yet has accepted buttons 6 and
\* then, with sequence number 2, buttons 3: pressed is 1, the edges of
\* the first datagram are gone.
C24_Witness ==
    /\ ev.input = "accepted"
    /\ HasSessionIn(clients, FirstPeer)
    /\ SessionIn(clients, FirstPeer).recv_tick = <<0, 2>>
    /\ SessionIn(clients, FirstPeer).send_tick = Zero32
    /\ SessionIn(clients, FirstPeer).down = 3
    /\ SessionIn(clients, FirstPeer).pressed = 1
    /\ ~HasSessionIn(clients, SecondPeer)

(***************************************************************************)
(* C25.  In one iteration of run_server's loop every tick that is due runs *)
(* before receive_packets reads a datagram: while a tick is due nothing is *)
(* taken from the socket, no input is accepted and no session is created.  *)
(* Every datagram accepted afterwards is stamped with the tick the burst   *)
(* ended at.  After a burst of more than NETWORK_TIMEOUT ticks no session  *)
(* that was connected before it is left, even when datagrams of its        *)
(* address were waiting on the socket all along.                           *)
(***************************************************************************)
C25_ReadsAfterTicks ==
    pc \in {"recv", "got", "input"} => delta_time < TICK_TIME

C25_BurstIsClosed ==
    pc \in {"ticks", "clients"} =>
        /\ Len(socket') >= Len(socket)
        /\ ev'.input = "none"
        /\ ev'.connect = ZeroAddr
        /\ dgram' = dgram
        /\ \A x \in Slots :
            clients'[x].connected =>
                /\ clients[x].connected
                /\ clients'[x].recv_tick = clients[x].recv_tick
                /\ clients'[x].last_tick = clients[x].last_tick

C25_Stamp ==
    (AtInput /\ ev'.input = "accepted") =>
        /\ tick' = tick
        /\ tick = hist.total \div TICK_TIME
        /\ clients'[cur].last_tick = tick

C25_LongBurstEvictsAll ==
    (pc = "ticks" /\ hist.burst > NETWORK_TIMEOUT) => ConnectedIn(clients) = {}

C25_TicksBeforeDatagrams ==
    /\ [](C25_ReadsAfterTicks /\ C25_LongBurstEvictsAll)
    /\ [][C25_BurstIsClosed /\ C25_Stamp]_vars

\* The tick of a burst that passes the timeout destroys a session while a
\* datagram of its address, with a sequence number it has not seen, waits
\* on the socket.
C25_Witness ==
    /\ pc = "clients"
    /\ hist.burst = NETWORK_TIMEOUT + 1
    /\ ev.disconnect = FirstPeer
    /\ ConnectedIn(clients) = {}
    /\ socket # <<>>
    /\ Head(socket) = Dgram(FirstPeer, <<0, 0, 0, 2, 3>>)

(***************************************************************************)
(* C26.  In every reachable state and for every slot, each bit set in      *)
(* pressed is set in down: (pressed & ~down) = 0.                          *)
(***************************************************************************)
C26_PressedWithinDown ==
    \A x \in Slots :
        /\ BitAnd(clients[x].pressed, 255 - clients[x].down, 8) = 0
        /\ \A k \in 0 .. 7 : Bit(clients[x].pressed, k) <= Bit(clients[x].down, k)

\* A session holds an edge (pressed = 1 with buttons 3 down after buttons 6)
\* and a button that is down without being newly pressed, and a datagram
\* for it has just been dropped as stale.
C26_Witness ==
    /\ ev.input = "stale"
    /\ \E x \in Slots :
        /\ clients[x].connected
        /\ clients[x].pressed = 1
        /\ clients[x].down = 3

(***************************************************************************)
(* C27.  In every reachable state an unconnected slot is all zero and a    *)
(* connected slot has an address that is not zero; and whenever            *)
(* state.net.sorted is true the array is in the order of compare_clients,  *)
(* which puts the unconnected slots before the connected ones, so that     *)
(* slot 0 is connected exactly when all NETWORK_CLIENTS slots are.  Every  *)
(* step that creates or destroys a client leaves sorted false, and every   *)
(* create_client searches an array that is in order.                       *)
(***************************************************************************)
C27_Slots ==
    \A x \in Slots :
        /\ ~clients[x].connected => clients[x] = ZeroClient
        /\ clients[x].connected => clients[x].addr # ZeroAddr

C27_Ordered ==
    sorted =>
        /\ IsSorted(clients)
        /\ \A x, y \in Slots :
            (~clients[y].connected /\ clients[x].connected) => y < x
        /\ clients[0].connected <=> FullIn(clients)

C27_FlagCleared ==
    (ev'.connect # ZeroAddr \/ ev'.disconnect # ZeroAddr) =>
        sorted' = FALSE

\* What create_client searched is what it left, but for the slot it filled
\* when it made a client.
C27_SearchedSorted ==
    AtLookup =>
        LET searched == IF ev'.connect # ZeroAddr
                        THEN [clients' EXCEPT ![ev'.ret] = ZeroClient]
                        ELSE clients'
        IN  /\ IsSorted(searched)
            /\ searched \in qsort(clients)
            /\ ev'.connect = ZeroAddr => sorted'

C27_RegistryShape ==
    [](C27_Slots /\ C27_Ordered) /\ [][C27_FlagCleared /\ C27_SearchedSorted]_vars

\* A lookup has just sorted an array with a free slot and found its client
\* behind it.
C27_Witness ==
    /\ sorted
    /\ pc = "input"
    /\ ev.connect = ZeroAddr
    /\ ev.ret = NETWORK_CLIENTS - 1
    /\ ~clients[0].connected
    /\ clients[NETWORK_CLIENTS - 1].connected
    /\ clients[NETWORK_CLIENTS - 1].last_tick < tick

====
